---- MODULE Spec2Model ----
(***************************************************************************)
(* Playback core of clay: the Queue (src/clay/player.py), the libVLC       *)
(* Player built on it (src/clay/player.py) and the mpv adapter MPVPlayer   *)
(* (src/clay/playback/mpv.py).  Python 3 semantics: comparing or adding an *)
(* int with None or with a Track raises TypeError, a list index past the   *)
(* end raises IndexError, randint over an empty range raises ValueError.   *)
(*                                                                         *)
(* MPVPlayer inherits its queue operations (load_queue, next,              *)
(* append_to_queue, remove_from_queue, set_random, set_repeat_one,         *)
(* broadcast_state) from AbstractPlayer; they are the ones of Player in    *)
(* player.py, with play() where Player calls _play().                      *)
(*                                                                         *)
(* Every handler is an operator from the state it starts in to the state   *)
(* it ends in; an action applies one handler to the current state.  trace  *)
(* and op record what the last handler did, so that the order of its       *)
(* events and calls can be stated.                                         *)
(***************************************************************************)
EXTENDS Integers, Sequences, FiniteSets, TLC

\* ------------------------------------------------------------------ bounds
\* Longest track sequence a Queue.load or Queue.append may produce.
MaxLen == 3
\* Longest track sequence the player's callers load or append up to.
MaxQueue == 2
\* Most URL resolutions outstanding at once.
MaxInflight == 1
\* Most station requests outstanding at once.
MaxStations == 1
\* Largest number of seconds the backend reports (elapsed or duration).
MaxSeconds == 2
\* Most URL resolutions outstanding at once when the caller starts a track
\* without waiting for the resolution of the one before.
MaxOverlap == 2

\* The tracks of the catalogue (identity = store id).
Tracks == {"A", "B"}

\* Python's None, where a track or a name is expected.
None == "None"
\* "No exception was raised".
NoExc == "no"

\* ------------------------------------------------------------------ state
VARIABLES
    engine,        \* "vlc": Player of player.py; "mpv": MPVPlayer of mpv.py
    download_tracks, \* mpv: the setting play_settings.download_tracks
    queue,         \* Queue: [tracks, current_track, random, repeat_one]
    pause,         \* the backend is not playing (mpv: media_player.pause)
    is_loading,    \* MPVPlayer._is_loading
    playback_time, \* backend elapsed seconds, Unknown when there is none
    duration,      \* backend duration in seconds, Unknown when there is none
    inflight,      \* per track, the get_url calls whose callback is still to come
    station,       \* station requests outstanding, text of their notification
    trace,         \* what the last handler did, in order (events, calls out)
    op,            \* the last handler: its name, arguments, result, exception
    cycle          \* Queue only: indices returned by next(False) since load

vars == <<engine, download_tracks, queue, pause, is_loading, playback_time, duration,
          inflight, station, trace, op, cycle>>

playerVars == <<engine, download_tracks, pause, is_loading, playback_time, duration,
                inflight, station, trace>>

\* ------------------------------------------------------------------ cursor
\* Queue.current_track is None, an int, or (Queue.next, line 83) a Track.
NoneCur == [k |-> "none", i |-> 0, t |-> None]
IntCur(n) == [k |-> "int", i |-> n, t |-> None]
ObjCur(t) == [k |-> "obj", i |-> 0, t |-> t]

\* Sequences over S of length at most n.
SeqUpTo(S, n) == UNION {[1..m -> S] : m \in 0..n}

\* list.index(x): zero-based position of the first occurrence.
IndexOf(s, x) == (CHOOSE j \in 1..Len(s) : s[j] = x /\ \A h \in 1..(j-1) : s[h] # x) - 1

\* list.remove(x): the list without the first occurrence of x.
RemoveFirst(s, x) ==
    LET j == IndexOf(s, x) + 1
    IN  [h \in 1..(Len(s) - 1) |-> IF h < j THEN s[h] ELSE s[h + 1]]

\* What a Queue method hands back: the queue after it, its return value
\* (a track or None) and the exception it raised, if any.
QRes(q, ret, exc) == [q |-> q, ret |-> ret, raised |-> exc]

\* Queue.__init__
Queue_init == [tracks |-> <<>>, current_track |-> NoneCur,
               random |-> FALSE, repeat_one |-> FALSE]

\* A load that keeps the cursor it finds when no index is given.
Queue_load_KeepCursor(q, tracks, current_track) ==
    LET cur == IF current_track = NoneCur THEN q.current_track ELSE current_track
    IN  QRes([q EXCEPT !.tracks = tracks, !.current_track = cur], None, NoExc)

\* Queue.load(tracks, current_track=None)
Queue_load(q, tracks, current_track) ==
    LET cur == IF current_track = NoneCur /\ tracks # <<>>
               THEN IntCur(0) ELSE current_track
    IN  QRes([q EXCEPT !.tracks = tracks, !.current_track = cur], None, NoExc)

\* An append that selects the appended track when no track is selected.
Queue_append_Select(q, track) ==
    QRes([q EXCEPT !.tracks = Append(q.tracks, track),
                   !.current_track = IF q.current_track = NoneCur
                                     THEN IntCur(Len(q.tracks)) ELSE @],
         None, NoExc)

\* Queue.append(track)
Queue_append(q, track) ==
    QRes([q EXCEPT !.tracks = Append(q.tracks, track)], None, NoExc)

\* A remove without the membership test: list.index raises ValueError.
Queue_remove_Unguarded(q, track) ==
    IF \A j \in 1..Len(q.tracks) : q.tracks[j] # track
    THEN QRes([q EXCEPT !.current_track = NoneCur], None, "ValueError")
    ELSE LET index == IndexOf(q.tracks, track)
             q1 == [q EXCEPT !.tracks = RemoveFirst(q.tracks, track)]
         IN  IF q.current_track.k # "int" THEN QRes(q1, None, "TypeError")
             ELSE IF index < q.current_track.i
                  THEN QRes([q1 EXCEPT !.current_track = IntCur(q.current_track.i - 1)],
                            None, NoExc)
                  ELSE QRes(q1, None, NoExc)

\* A remove that never moves the cursor.
Queue_remove_KeepCursor(q, track) ==
    IF \A j \in 1..Len(q.tracks) : q.tracks[j] # track
    THEN QRes(q, None, NoExc)
    ELSE QRes([q EXCEPT !.tracks = RemoveFirst(q.tracks, track)], None,
              IF q.current_track.k # "int" THEN "TypeError" ELSE NoExc)

\* Queue.remove(track)
Queue_remove(q, track) ==
    IF \A j \in 1..Len(q.tracks) : q.tracks[j] # track
    THEN QRes(q, None, NoExc)
    ELSE LET index == IndexOf(q.tracks, track)
             q1 == [q EXCEPT !.tracks = RemoveFirst(q.tracks, track)]
         IN  IF q.current_track.k # "int"
             THEN QRes(q1, None, "TypeError")      \* index < None, index < Track
             ELSE IF index < q.current_track.i
                  THEN QRes([q1 EXCEPT !.current_track = IntCur(q.current_track.i - 1)],
                            None, NoExc)
                  ELSE QRes(q1, None, NoExc)

\* Queue.get_current_track()
Queue_get_current_track(q) ==
    IF q.current_track = NoneCur THEN QRes(q, None, NoExc)
    ELSE IF q.current_track.k = "obj" THEN QRes(q, None, "TypeError")
    ELSE IF q.current_track.i < Len(q.tracks)
         THEN QRes(q, q.tracks[q.current_track.i + 1], NoExc)
         ELSE QRes(q, None, "IndexError")

\* The linear advance of Queue.next (lines 92-94).
LinearAdvance(cur, len) == IF (cur + 1) + 1 >= len THEN 0 ELSE cur + 1

\* Queue.next(force); rnd is the value randint(0, len - 1) returns.
Queue_next(q, force, rnd) ==
    IF q.current_track = NoneCur /\ q.tracks = <<>>
    THEN QRes(q, None, NoExc)
    ELSE LET q1 == IF q.current_track = NoneCur
                   THEN [q EXCEPT !.current_track = ObjCur(q.tracks[1])]
                   ELSE q
         IN  IF q1.repeat_one /\ ~force
             THEN Queue_get_current_track(q1)
             ELSE IF q1.random
                  THEN IF q1.tracks = <<>>
                       THEN QRes(q1, None, "ValueError")
                       ELSE Queue_get_current_track(
                                [q1 EXCEPT !.current_track = IntCur(rnd)])
                  ELSE IF q1.current_track.k = "obj"
                       THEN QRes(q1, None, "TypeError")    \* Track += 1
                       ELSE Queue_get_current_track(
                                [q1 EXCEPT !.current_track =
                                    IntCur(LinearAdvance(q1.current_track.i,
                                                         Len(q1.tracks)))])

\* Queue.get_tracks()
Queue_get_tracks(q) == q.tracks

\* The values randint(0, len(tracks) - 1) can return where Queue.next reaches it.
RandRange(q, force) ==
    IF q.random /\ q.tracks # <<>> /\ ~(q.repeat_one /\ ~force)
    THEN 0..(Len(q.tracks) - 1) ELSE {0}


\* ------------------------------------------------------------- the player
\* The number of outstanding resolutions.
Outstanding(fl) ==
    LET RECURSIVE Sum(_)
        Sum(S) == IF S = {} THEN 0
                  ELSE LET t == CHOOSE x \in S : TRUE IN fl[t] + Sum(S \ {t})
    IN  Sum(Tracks)

\* An optional int (None or a number) is <<>> or <<n>>.
Unknown == <<>>
Known(n) == <<n>>

\* One entry of a handler's trace: an event fired or a call made to a
\* collaborator, with the track (or URL) it carries; l and p are the
\* is_loading and is_playing arguments of media_state_changed.
NoData == [playing |-> FALSE, artist |-> None, title |-> None,
           progress |-> Unknown, length |-> Unknown]
Ev(e, t) == [e |-> e, t |-> t, l |-> FALSE, p |-> FALSE, data |-> NoData]
EvState(l, p) ==
    [e |-> "media_state_changed", t |-> None, l |-> l, p |-> p, data |-> NoData]
\* The record data is written to /tmp/clay.json, replacing what it held.
EvSnapshot(data) ==
    [e |-> "snapshot_write", t |-> None, l |-> FALSE, p |-> FALSE, data |-> data]

\* The URL the resolver returns for a track, and the cached file of a track,
\* name the track they belong to.
UrlOf(track) == track

\* No station was ever requested: there is no notification.
NoStation == [pending |-> 0, note |-> None]

\* The state a handler works on: the player's fields, the events of the
\* handler so far, and the exception that ended it (NoExc while it runs).
Cur == [engine |-> engine, download_tracks |-> download_tracks, queue |-> queue, pause |-> pause,
        is_loading |-> is_loading, playback_time |-> playback_time,
        duration |-> duration, inflight |-> inflight, station |-> station,
        trace |-> <<>>, raised |-> NoExc]

Emit(s, ev) == [s EXCEPT !.trace = Append(s.trace, ev)]
Raise(s, exc) == [s EXCEPT !.raised = exc]

\* MPVPlayer.is_loading
MPVPlayer_is_loading(s) == s.is_loading

\* An is_playing that looks at the pause flag only.
MPVPlayer_is_playing_PauseOnly(s) == ~s.pause

\* MPVPlayer.is_playing
MPVPlayer_is_playing(s) == ~(s.pause \/ MPVPlayer_is_loading(s))

\* Player.is_playing: the libVLC state is Playing.
Player_is_playing(s) == ~s.pause

is_playing(s) ==
    IF s.engine = "mpv" THEN MPVPlayer_is_playing(s) ELSE Player_is_playing(s)

\* MPVPlayer.get_play_progress_seconds
MPVPlayer_get_play_progress_seconds(s) ==
    IF s.playback_time = Unknown THEN 0 ELSE s.playback_time[1]

\* Player.get_play_progress_seconds: libVLC answers -1 for the position and
\* the length of no media, and int(-1.0 * -1 / 1000) is 0.
Player_get_play_progress_seconds(s) ==
    IF s.playback_time = Unknown \/ s.duration = Unknown THEN 0
    ELSE s.playback_time[1]

get_play_progress_seconds(s) ==
    IF s.engine = "mpv" THEN MPVPlayer_get_play_progress_seconds(s)
    ELSE Player_get_play_progress_seconds(s)

\* MPVPlayer.get_length_seconds
MPVPlayer_get_length_seconds(s) ==
    IF s.duration = Unknown THEN 0 ELSE s.duration[1]

\* Player.get_length_seconds: int(-1 // 1000) is -1.
Player_get_length_seconds(s) ==
    IF s.duration = Unknown THEN 0 - 1 ELSE s.duration[1]

get_length_seconds(s) ==
    IF s.engine = "mpv" THEN MPVPlayer_get_length_seconds(s)
    ELSE Player_get_length_seconds(s)

NoTrackData == NoData

\* A broadcast_state that writes the record of "no track" whatever plays.
broadcast_state_NoTrack(s) ==
    LET r == Queue_get_current_track(s.queue)
    IN  IF r.raised # NoExc THEN Raise(s, r.raised)
        ELSE Emit(s, EvSnapshot(NoTrackData))

\* Player.broadcast_state (inherited by MPVPlayer)
broadcast_state(s) ==
    LET r == Queue_get_current_track(s.queue)
        data == IF r.ret = None
                THEN NoTrackData
                ELSE [playing |-> is_playing(s), artist |-> r.ret, title |-> r.ret,
                      progress |-> Known(get_play_progress_seconds(s)),
                      length |-> Known(get_length_seconds(s))]
    IN  IF r.raised # NoExc THEN Raise(s, r.raised)
        ELSE Emit(s, EvSnapshot(data))

\* track.get_url(callback=...): the resolver is invoked and will call the
\* callback once, with (url, error, track).
get_url(s, track) ==
    Emit([s EXCEPT !.inflight[track] = @ + 1], Ev("get_url", track))

\* Player._play_ready(url, error, track)
Player_play_ready(s, url, error, track) ==
    IF error
    THEN Emit(s, Ev("notify_error", track))
    ELSE Emit([s EXCEPT !.pause = FALSE], Ev("load_and_play", url))

\* A _play_ready that does not return after logging the error.
MPVPlayer_play_ready_NoReturn(s, url, error, track) ==
    LET s1 == [s EXCEPT !.is_loading = FALSE]
        s2 == IF error THEN Emit(s1, Ev("log_error", track)) ELSE s1
    IN  Emit(Emit(s2, Ev("load_and_play", url)), Ev("osd_notify", track))

\* MPVPlayer._play_ready(url, error, track)
MPVPlayer_play_ready(s, url, error, track) ==
    LET s1 == [s EXCEPT !.is_loading = FALSE]
    IN  IF error
        THEN Emit(s1, Ev("log_error", track))
        ELSE Emit(Emit(s1, Ev("load_and_play", url)), Ev("osd_notify", track))

\* AbstractPlayer._download_track(url, error, track), the callback play()
\* registers for a track that is to be cached: the completion of a
\* resolution as section 4.2 (steps 4 and 5) states it.
MPVPlayer_download_track(s, url, error, track) ==
    MPVPlayer_play_ready(s, url, error, track)

\* Player._play()
Player_play(s) ==
    LET r == Queue_get_current_track(s.queue)
    IN  IF r.raised # NoExc THEN Raise(s, r.raised)
        ELSE IF r.ret = None THEN s
        ELSE LET s1 == get_url(s, r.ret)
                 s2 == broadcast_state(s1)
             IN  IF s2.raised # NoExc THEN s2
                 ELSE Emit(s2, Ev("track_changed", r.ret))

\* A play() that hands the track to the backend without resolving its URL.
MPVPlayer_play_Unresolved(s, cached) ==
    LET r == Queue_get_current_track(s.queue)
    IN  IF r.raised # NoExc THEN Raise(s, r.raised)
        ELSE IF r.ret = None THEN s
        ELSE LET s1 == broadcast_state([s EXCEPT !.is_loading = TRUE])
                 s2 == Emit(s1, Ev("track_changed", r.ret))
             IN  MPVPlayer_play_ready(s2, UrlOf(r.ret), FALSE, r.ret)

\* MPVPlayer.play(); cached: settings_manager holds a cached file of the
\* track (is_file_cached is true and get_cached_file_path is not None).
\* The callback of get_url is _download_track when the track is to be
\* downloaded into the cache, _play_ready when it is streamed.
MPVPlayer_play(s, cached) ==
    LET r == Queue_get_current_track(s.queue)
    IN  IF r.raised # NoExc THEN Raise(s, r.raised)
        ELSE IF r.ret = None THEN s
        ELSE LET s1 == broadcast_state([s EXCEPT !.is_loading = TRUE])
                 s2 == Emit(s1, Ev("track_changed", r.ret))
             IN  IF s1.raised # NoExc THEN s1
                 ELSE IF s.download_tracks \/ cached
                      THEN IF ~cached
                           THEN get_url(s2, r.ret)
                           ELSE MPVPlayer_play_ready(s2, UrlOf(r.ret), FALSE, r.ret)
                      ELSE get_url(s2, r.ret)

\* The play-start of the player in use.
play(s, cached) ==
    IF s.engine = "mpv" THEN MPVPlayer_play(s, cached) ELSE Player_play(s)

\* A load_queue that starts playback before it announces the new queue.
load_queue_PlayFirst(s, data, current_index, cached) ==
    LET s1 == [s EXCEPT !.queue = Queue_load(s.queue, data, current_index).q]
        s2 == play(s1, cached)
    IN  IF s2.raised # NoExc THEN s2 ELSE Emit(s2, Ev("queue_changed", None))

\* Player.load_queue(data, current_index)
load_queue(s, data, current_index, cached) ==
    LET s1 == [s EXCEPT !.queue = Queue_load(s.queue, data, current_index).q]
    IN  play(Emit(s1, Ev("queue_changed", None)), cached)

\* Player.append_to_queue(track)
append_to_queue(s, track) ==
    Emit([s EXCEPT !.queue = Queue_append(s.queue, track).q],
         Ev("track_appended", track))

\* Player.remove_from_queue(track)
remove_from_queue(s, track) ==
    LET r == Queue_remove(s.queue, track)
        s1 == [s EXCEPT !.queue = r.q]
    IN  IF r.raised # NoExc THEN Raise(s1, r.raised)
        ELSE Emit(Emit(s1, Ev("queue_changed", None)), Ev("track_removed", track))

\* Player.next(force)
next(s, force, rnd, cached) ==
    LET r == Queue_next(s.queue, force, rnd)
        s1 == [s EXCEPT !.queue = r.q]
    IN  IF r.raised # NoExc THEN Raise(s1, r.raised)
        ELSE play(s1, cached)

\* Player.set_random(value)
set_random(s, value) ==
    Emit([s EXCEPT !.queue.random = value], Ev("playback_flags_changed", None))

\* Player.set_repeat_one(value)
set_repeat_one(s, value) ==
    Emit([s EXCEPT !.queue.repeat_one = value], Ev("playback_flags_changed", None))

\* A play_pause that pauses whatever the pause flag is.
MPVPlayer_play_pause_AlwaysPause(s) == [s EXCEPT !.pause = TRUE]

\* MPVPlayer.play_pause()
MPVPlayer_play_pause(s) == [s EXCEPT !.pause = ~s.pause]

\* Player.play_pause(): media_player.pause() or media_player.play()
Player_play_pause(s) ==
    IF Player_is_playing(s) THEN [s EXCEPT !.pause = TRUE]
    ELSE [s EXCEPT !.pause = FALSE]

play_pause(s) ==
    IF s.engine = "mpv" THEN MPVPlayer_play_pause(s) ELSE Player_play_pause(s)

\* A _media_end_reached that skips as a manual next() does.
MPVPlayer_media_end_reached_Forced(s, value, rnd, cached) ==
    IF value THEN next(s, TRUE, rnd, cached) ELSE s

\* MPVPlayer._media_end_reached(event, value)
MPVPlayer_media_end_reached(s, value, rnd, cached) ==
    IF value THEN next(s, FALSE, rnd, cached) ELSE s

\* Player._media_end_reached(event): libVLC has left the Playing state when
\* it reports the end.
Player_media_end_reached(s, rnd, cached) ==
    next([s EXCEPT !.pause = TRUE], FALSE, rnd, cached)

media_end_reached(s, value, rnd, cached) ==
    IF s.engine = "mpv" THEN MPVPlayer_media_end_reached(s, value, rnd, cached)
    ELSE Player_media_end_reached(s, rnd, cached)

\* MPVPlayer._media_state_changed()
MPVPlayer_media_state_changed(s) ==
    LET s1 == broadcast_state(s)
    IN  IF s1.raised # NoExc THEN s1
        ELSE Emit(s1, EvState(MPVPlayer_is_loading(s1), MPVPlayer_is_playing(s1)))

\* Player._media_state_changed(event): fires media_state_changed(is_playing)
Player_media_state_changed(s) ==
    LET s1 == broadcast_state(s)
    IN  IF s1.raised # NoExc THEN s1
        ELSE Emit(s1, EvState(FALSE, Player_is_playing(s1)))

media_state_changed(s) ==
    IF s.engine = "mpv" THEN MPVPlayer_media_state_changed(s)
    ELSE Player_media_state_changed(s)


\* The quotient elapsed / duration of two numbers, duration not zero.
Frac(a, b) == IF a = 0 THEN Known(0) ELSE <<a, b>>

\* What a getter hands back: the number and the exception raised, if any.
NumRes(val, exc) == [val |-> val, raised |-> exc]

\* MPVPlayer.get_play_progress(): None in the quotient raises TypeError,
\* which is caught; a zero duration raises ZeroDivisionError, which is not.
MPVPlayer_get_play_progress(s) ==
    IF s.playback_time = Unknown \/ s.duration = Unknown
    THEN NumRes(Known(0), NoExc)
    ELSE IF s.duration[1] = 0
         THEN NumRes(Unknown, "ZeroDivisionError")
         ELSE NumRes(Frac(s.playback_time[1], s.duration[1]), NoExc)

\* Player.get_play_progress(): libVLC's get_position(), -1 for no media.
Player_get_play_progress(s) ==
    IF s.playback_time = Unknown \/ s.duration = Unknown
    THEN NumRes(Known(0 - 1), NoExc)
    ELSE IF s.duration[1] = 0
         THEN NumRes(Known(0), NoExc)
         ELSE NumRes(Frac(s.playback_time[1], s.duration[1]), NoExc)

get_play_progress(s) ==
    IF s.engine = "mpv" THEN MPVPlayer_get_play_progress(s)
    ELSE Player_get_play_progress(s)

\* media_position_changed.fire(progress)
EvPosition(progress) ==
    [e |-> "media_position_changed", t |-> None, l |-> FALSE, p |-> FALSE,
     data |-> [NoData EXCEPT !.progress = progress]]

\* MPVPlayer._media_position_changed()
MPVPlayer_media_position_changed(s) ==
    LET s1 == broadcast_state(s)
        r == MPVPlayer_get_play_progress(s1)
    IN  IF s1.raised # NoExc THEN s1
        ELSE IF r.raised # NoExc THEN Raise(s1, r.raised)
        ELSE Emit(s1, EvPosition(r.val))

\* Player._media_position_changed(event)
Player_media_position_changed(s) ==
    LET s1 == broadcast_state(s)
        r == Player_get_play_progress(s1)
    IN  IF s1.raised # NoExc THEN s1
        ELSE IF r.raised # NoExc THEN Raise(s1, r.raised)
        ELSE Emit(s1, EvPosition(r.val))

media_position_changed(s) ==
    IF s.engine = "mpv" THEN MPVPlayer_media_position_changed(s)
    ELSE Player_media_position_changed(s)

\* The texts of the create-station notification.
Creating == "Creating station..."
Failed == "Failed to create station"
EmptyStation == "Newly created station is empty :("
Ready == "Station ready!"

\* Player.create_station_from_track(track)
create_station_from_track(s, track) ==
    Emit([s EXCEPT !.station = [pending |-> @.pending + 1, note |-> Creating]],
         Ev("create_station_async", track))

\* A completion that loads the station's tracks whatever it was given.
Player_create_station_from_track_ready_Unchecked(s, tracks, error, cached) ==
    LET s1 == load_queue(s, tracks, NoneCur, cached)
    IN  IF s1.raised # NoExc THEN s1 ELSE [s1 EXCEPT !.station.note = Ready]

\* Player._create_station_from_track_ready(station, error); tracks is what
\* station.get_tracks() returns.
Player_create_station_from_track_ready(s, tracks, error, cached) ==
    IF error THEN [s EXCEPT !.station.note = Failed]
    ELSE IF tracks = <<>> THEN [s EXCEPT !.station.note = EmptyStation]
    ELSE LET s1 == load_queue(s, tracks, NoneCur, cached)
         IN  IF s1.raised # NoExc THEN s1 ELSE [s1 EXCEPT !.station.note = Ready]

\* MPVPlayer._create_station_ready(station, error)
MPVPlayer_create_station_ready(s, tracks, error, cached) ==
    IF error THEN [s EXCEPT !.station.note = Failed]
    ELSE IF tracks = <<>> THEN [s EXCEPT !.station.note = EmptyStation]
    ELSE LET s1 == load_queue(s, tracks, NoneCur, cached)
         IN  IF s1.raised # NoExc THEN s1 ELSE [s1 EXCEPT !.station.note = Ready]

create_station_ready(s, tracks, error, cached) ==
    IF s.engine = "mpv" THEN MPVPlayer_create_station_ready(s, tracks, error, cached)
    ELSE Player_create_station_from_track_ready(s, tracks, error, cached)


\* ---------------------------------------------------------------- actions
\* The record of the last handler: flag is its boolean argument (force of
\* next, error of a resolver completion, value of idle-active or of a flag;
\* of a load, that the index was omitted; of a remove, that the track was in
\* the sequence; of play_pause, the pause flag it found), cached what
\* settings_manager answered to the play-start it made, data the track list
\* a load was
\* given, pre the queue a Queue.remove started from, val the number returned.
OpRec(name, track, flag, ret, raised) ==
    [name |-> name, track |-> track, flag |-> flag, cached |-> FALSE,
     ret |-> ret, raised |-> raised, data |-> <<>>, pre |-> Queue_init,
     val |-> Unknown]
OpPlay(name, flag, cached, raised) ==
    [name |-> name, track |-> None, flag |-> flag, cached |-> cached,
     ret |-> None, raised |-> raised, data |-> <<>>, pre |-> Queue_init,
     val |-> Unknown]

NoCycle == [on |-> FALSE, seen |-> <<>>]

\* What settings_manager can answer in MPVPlayer.play; Player._play asks nothing.
CacheAnswers == IF engine = "mpv" THEN BOOLEAN ELSE {FALSE}

\* The track lists a caller of the player loads: the first n tracks of an
\* album whose tracks are A, B, A, B, ...
Album(n) == [j \in 1..n |-> IF j % 2 = 1 THEN "A" ELSE "B"]
Playlists == {Album(n) : n \in 0..MaxQueue}

\* The current_index arguments of load: omitted, or an index of the list.
Indexes(data) == {NoneCur} \cup {IntCur(j) : j \in 0..(Len(data) - 1)}

\* The player's fields after a handler that ended in state s.
Commit(s, o) ==
    /\ queue' = s.queue
    /\ pause' = s.pause
    /\ is_loading' = s.is_loading
    /\ inflight' = s.inflight
    /\ station' = s.station
    /\ trace' = s.trace
    /\ op' = o
    /\ cycle' = NoCycle
    /\ UNCHANGED <<engine, download_tracks, playback_time, duration>>

Init ==
    /\ engine \in {"vlc", "mpv"}
    /\ download_tracks \in (IF engine = "mpv" THEN BOOLEAN ELSE {FALSE})
    /\ queue = Queue_init
    /\ pause = (engine = "vlc")
    /\ is_loading = FALSE
    /\ playback_time = Unknown
    /\ duration = Unknown
    /\ inflight = [t \in Tracks |-> 0]
    /\ station = NoStation
    /\ trace = <<>>
    /\ op = OpRec("init", None, FALSE, None, NoExc)
    /\ cycle = NoCycle

LoadQueue ==
    /\ Outstanding(inflight) < MaxInflight
    /\ \E data \in Playlists : \E current_index \in Indexes(data) :
       \E cached \in CacheAnswers :
          \E s \in {load_queue(Cur, data, current_index, cached)} :
              Commit(s, [OpPlay("load_queue", current_index = NoneCur, cached, s.raised)
                           EXCEPT !.data = data])

AppendToQueue ==
    /\ Len(queue.tracks) < MaxQueue
    /\ \E track \in Tracks :
          \E s \in {append_to_queue(Cur, track)} :
              Commit(s, OpRec("append_to_queue", track, FALSE, None, s.raised))

RemoveFromQueue ==
    \E track \in Tracks :
       \E s \in {remove_from_queue(Cur, track)} :
           Commit(s, OpRec("remove_from_queue", track,
                           \E j \in 1..Len(queue.tracks) : queue.tracks[j] = track,
                           None, s.raised))

Next_ ==
    /\ Outstanding(inflight) < MaxInflight
    /\ \E force \in BOOLEAN : \E rnd \in RandRange(queue, force) :
       \E cached \in CacheAnswers :
          \E s \in {next(Cur, force, rnd, cached)} :
              Commit(s, OpPlay("next", force, cached, s.raised))

SetRandom ==
    \E value \in BOOLEAN :
       \E s \in {set_random(Cur, value)} :
           Commit(s, OpRec("set_random", None, value, None, s.raised))

SetRepeatOne ==
    \E value \in BOOLEAN :
       \E s \in {set_repeat_one(Cur, value)} :
           Commit(s, OpRec("set_repeat_one", None, value, None, s.raised))

PlayPause ==
    \E s \in {play_pause(Cur)} :
        Commit(s, OpRec("play_pause", None, pause, None, s.raised))

\* The backend reports the end of the stream (mpv: idle-active changed to value).
MediaEndReached ==
    /\ Outstanding(inflight) < MaxInflight
    /\ \E value \in (IF engine = "mpv" THEN BOOLEAN ELSE {TRUE}) :
       \E rnd \in RandRange(queue, FALSE) : \E cached \in CacheAnswers :
          \E s \in {media_end_reached(Cur, value, rnd, cached)} :
              Commit(s, OpPlay("media_end_reached", value, cached, s.raised))

\* The backend reports a state change (pause toggled, stream opened).
MediaStateChanged ==
    \E s \in {media_state_changed(Cur)} :
        Commit(s, OpRec("media_state_changed", None, FALSE, None, s.raised))

\* The callback of an outstanding resolution, called with (url, error, track):
\* every get_url of a player that downloads its tracks names _download_track.
resolved(s, url, error, track) ==
    IF s.engine = "vlc" THEN Player_play_ready(s, url, error, track)
    ELSE IF s.download_tracks THEN MPVPlayer_download_track(s, url, error, track)
    ELSE MPVPlayer_play_ready(s, url, error, track)

\* The resolver of an outstanding resolution completes, with a URL or with
\* an error.
PlayReady ==
    \E track \in Tracks : \E error \in BOOLEAN :
       /\ inflight[track] > 0
       /\ \E s \in {resolved([Cur EXCEPT !.inflight[track] = @ - 1],
                              IF error THEN None ELSE UrlOf(track), error, track)} :
              Commit(s, OpRec("play_ready", track, error, None, s.raised))

Next ==
    \/ LoadQueue
    \/ AppendToQueue
    \/ RemoveFromQueue
    \/ Next_
    \/ SetRandom
    \/ SetRepeatOne
    \/ PlayPause
    \/ MediaEndReached
    \/ MediaStateChanged
    \/ PlayReady

Spec == Init /\ [][Next]_vars


\* ------------------------------------- the player and its backend's events
\* The backend's elapsed time and duration change (a stream opens, plays,
\* closes).
BackendReports ==
    /\ \E pt \in {Unknown} \cup {Known(n) : n \in 0..MaxSeconds} :
       \E d \in {Unknown} \cup {Known(n) : n \in 0..MaxSeconds} :
          /\ <<pt, d>> # <<playback_time, duration>>
          /\ playback_time' = pt
          /\ duration' = d
    /\ trace' = <<>>
    /\ op' = OpRec("backend", None, FALSE, None, NoExc)
    /\ UNCHANGED <<engine, download_tracks, queue, pause, is_loading, inflight,
                   station, cycle>>

\* The backend opens a stream of d seconds, or closes the one it has.
StreamChanges ==
    /\ \E pd \in {<<Unknown, Unknown>>} \cup
                  {<<Known(0), Known(d)>> : d \in 0..MaxSeconds} :
          /\ pd # <<playback_time, duration>>
          /\ playback_time' = pd[1]
          /\ duration' = pd[2]
    /\ trace' = <<>>
    /\ op' = OpRec("backend", None, FALSE, None, NoExc)
    /\ UNCHANGED <<engine, download_tracks, queue, pause, is_loading, inflight,
                   station, cycle>>

\* The backend reports a new position.
MediaPositionChanged ==
    \E s \in {media_position_changed(Cur)} :
        Commit(s, OpRec("media_position_changed", None, FALSE, None, s.raised))

\* A caller (the progress bar) asks for the progress.
GetPlayProgress ==
    \E r \in {get_play_progress(Cur)} :
        Commit(Cur, [OpRec("get_play_progress", None, FALSE, None, r.raised)
                     EXCEPT !.val = r.val])

CreateStationFromTrack ==
    /\ station.pending < MaxStations
    /\ \E track \in Tracks :
          \E s \in {create_station_from_track(Cur, track)} :
              Commit(s, OpRec("create_station_from_track", track, FALSE, None, s.raised))

\* A station request completes, with the station's tracks or with an error.
StationReady ==
    /\ station.pending > 0
    /\ Outstanding(inflight) < MaxInflight
    /\ \E error \in BOOLEAN : \E tracks \in (IF error THEN {<<>>} ELSE Playlists) :
       \E cached \in CacheAnswers :
          \E s \in {create_station_ready([Cur EXCEPT !.station.pending = @ - 1],
                                          tracks, error, cached)} :
              Commit(s, [OpPlay("station_ready", error, cached, s.raised)
                         EXCEPT !.data = tracks])

\* The backend's events, on every queue the player's callers can build.
NextBackend ==
    \/ LoadQueue
    \/ AppendToQueue
    \/ RemoveFromQueue
    \/ PlayPause
    \/ PlayReady
    \/ StreamChanges
    \/ MediaStateChanged
    \/ MediaPositionChanged

SpecBackend == Init /\ [][NextBackend]_vars

\* The progress getters, on every position the backend can report.
NextProgress ==
    \/ BackendReports
    \/ PlayPause
    \/ GetPlayProgress
    \/ MediaPositionChanged

SpecProgress == Init /\ [][NextProgress]_vars

\* Station requests and their completions.
NextStation ==
    \/ LoadQueue
    \/ AppendToQueue
    \/ RemoveFromQueue
    \/ PlayReady
    \/ CreateStationFromTrack
    \/ StationReady

SpecStation == Init /\ [][NextStation]_vars


\* ------------------------------------------------ overlapping play-starts
\* load_queue called while earlier resolutions are outstanding.
LoadQueueAgain ==
    /\ Outstanding(inflight) < MaxOverlap
    /\ \E data \in Playlists : \E current_index \in Indexes(data) :
       \E cached \in CacheAnswers :
          \E s \in {load_queue(Cur, data, current_index, cached)} :
              Commit(s, [OpPlay("load_queue", current_index = NoneCur, cached, s.raised)
                         EXCEPT !.data = data])

\* next(force) called while earlier resolutions are outstanding.
NextAgain ==
    /\ Outstanding(inflight) < MaxOverlap
    /\ \E force \in BOOLEAN : \E rnd \in RandRange(queue, force) :
       \E cached \in CacheAnswers :
          \E s \in {next(Cur, force, rnd, cached)} :
              Commit(s, OpPlay("next", force, cached, s.raised))

NextOverlap ==
    \/ LoadQueueAgain
    \/ NextAgain
    \/ PlayPause
    \/ PlayReady

SpecOverlap == Init /\ [][NextOverlap]_vars


\* ------------------------------------------------- the Queue on its own
\* The queue after a Queue method that ended as r; the player does not move.
QCommit(r, o, c) ==
    /\ queue' = r.q
    /\ op' = o
    /\ cycle' = c
    /\ UNCHANGED playerVars

\* cycle after next(force) returned: the index it moved to is recorded while
\* a load (index omitted, both flags off) is followed by next(False) calls
\* only, up to len(tracks) of them.
CycleAfterNext(r, force) ==
    IF cycle.on /\ ~force /\ r.raised = NoExc /\ Len(cycle.seen) < Len(queue.tracks)
    THEN [on |-> TRUE, seen |-> Append(cycle.seen, r.q.current_track.i)]
    ELSE NoCycle

QLoad ==
    \E tracks \in SeqUpTo(Tracks, MaxLen) : \E current_track \in Indexes(tracks) :
       \E r \in {Queue_load(queue, tracks, current_track)} :
          QCommit(r, [OpRec("Queue.load", None, current_track = NoneCur, r.ret, r.raised)
                         EXCEPT !.data = tracks],
                  [on |-> current_track = NoneCur /\ tracks # <<>>
                          /\ ~queue.random /\ ~queue.repeat_one,
                   seen |-> <<>>])

QAppend ==
    /\ Len(queue.tracks) < MaxLen
    /\ \E track \in Tracks : \E r \in {Queue_append(queue, track)} :
          QCommit(r, OpRec("Queue.append", track, FALSE, r.ret, r.raised), NoCycle)

QRemove ==
    \E track \in Tracks : \E r \in {Queue_remove(queue, track)} :
       QCommit(r, [OpRec("Queue.remove", track,
                         \E j \in 1..Len(queue.tracks) : queue.tracks[j] = track,
                         r.ret, r.raised) EXCEPT !.pre = queue], NoCycle)

QGetCurrentTrack ==
    \E r \in {Queue_get_current_track(queue)} :
       QCommit(r, OpRec("Queue.get_current_track", None, FALSE, r.ret, r.raised), cycle)

QGetTracks ==
    /\ Queue_get_tracks(queue) = queue.tracks
    /\ QCommit(QRes(queue, None, NoExc),
               OpRec("Queue.get_tracks", None, FALSE, None, NoExc), cycle)

QNext ==
    \E force \in BOOLEAN : \E rnd \in RandRange(queue, force) :
       \E r \in {Queue_next(queue, force, rnd)} :
          QCommit(r, OpRec("Queue.next", None, force, r.ret, r.raised),
                  CycleAfterNext(r, force))

\* queue.random = value, queue.repeat_one = value (Player.set_random,
\* Player.set_repeat_one).
QSetRandom ==
    \E value \in BOOLEAN :
       QCommit(QRes([queue EXCEPT !.random = value], None, NoExc),
               OpRec("Queue.random", None, value, None, NoExc), NoCycle)

QSetRepeatOne ==
    \E value \in BOOLEAN :
       QCommit(QRes([queue EXCEPT !.repeat_one = value], None, NoExc),
               OpRec("Queue.repeat_one", None, value, None, NoExc), NoCycle)

NextQueue ==
    \/ QLoad
    \/ QAppend
    \/ QRemove
    \/ QGetCurrentTrack
    \/ QGetTracks
    \/ QNext
    \/ QSetRandom
    \/ QSetRepeatOne

SpecQueue == Init /\ [][NextQueue]_vars


\* ------------------------------------------------------------------ claims
CursorSet(q) == q.current_track.k = "int"
CursorInRange(q) == CursorSet(q) /\ q.current_track.i < Len(q.tracks)

\* C2: the cursor is unset, or an integer index with 0 <= cursor < length of
\* the track sequence; and it is unset whenever the sequence is empty.
C2_CursorValid ==
    /\ queue.current_track = NoneCur \/ CursorInRange(queue)
    /\ queue.tracks = <<>> => queue.current_track = NoneCur

\* C3: no Queue operation ever raises.
C3_QueueNeverRaises == op.raised = NoExc

\* C4: with both flags off, the k-th of the next(False) calls that follow a
\* load of n tracks returns index k mod n: 1, 2, ..., n-1, 0.
C4_CycleOrder ==
    cycle.on => \A k \in 1..Len(cycle.seen) : cycle.seen[k] = k % Len(queue.tracks)

\* C5: with repeat_one on and the cursor set, next(False) returns the track
\* get_current_track() returned just before and leaves the cursor where it
\* is; next(True), with random off and two tracks or more, moves the cursor
\* to a different index.
C5_RepeatOne ==
    [][(op'.name = "Queue.next" /\ queue.repeat_one /\ CursorInRange(queue)) =>
         IF ~op'.flag
         THEN /\ op'.raised = NoExc
              /\ op'.ret = Queue_get_current_track(queue).ret
              /\ queue'.current_track = queue.current_track
         ELSE (~queue.random /\ Len(queue.tracks) >= 2) =>
                  queue'.current_track # queue.current_track]_vars


\* The handler's trace holds the event ev.
Fired(tr, ev) == \E j \in 1..Len(tr) : tr[j] = ev
\* The handler called the backend's load-and-play.
Played(tr) == \E j \in 1..Len(tr) : tr[j].e = "load_and_play"
\* How many times the handler reported an error (notification or log).
Reports(tr) == Cardinality({j \in 1..Len(tr) : tr[j].e \in {"notify_error", "log_error"}})
\* The track get_current_track() returns, None when it returns none or raises.
CurrentTrack(q) == Queue_get_current_track(q).ret

\* C1: the completion, with a URL, of the resolution of a track that is not
\* the current track at that time does not call the backend's load-and-play
\* (stated of the players whose resolver callback is _play_ready).
C1_StaleResolutionIsNoOp ==
    [][(op'.name = "play_ready" /\ ~op'.flag /\ ~download_tracks
          /\ CurrentTrack(queue) \in Tracks
          /\ CurrentTrack(queue) # op'.track) => ~Played(trace')]_vars

\* C6: a resolver completion with an error leaves is_loading false, does not
\* call load-and-play, reports the error exactly once, leaves the queue as it
\* was and starts no resolution.
C6_ResolverError ==
    [][(op'.name = "play_ready" /\ op'.flag) =>
         /\ is_loading' = FALSE
         /\ ~Played(trace')
         /\ Reports(trace') = 1
         /\ queue' = queue
         /\ inflight' = [inflight EXCEPT ![op'.track] = @ - 1]
         /\ \A j \in 1..Len(trace') : trace'[j].e # "get_url"]_vars

\* A resolution of the current track of an mpv player that shows is_loading
\* has just failed.
C6_Witness ==
    /\ op.name = "play_ready" /\ op.flag /\ engine = "mpv"
    /\ CurrentTrack(queue) = op.track
    /\ Fired(trace, Ev("log_error", op.track))

\* C7: after a resolver failure is_loading is false and is_playing is false
\* (stated of the players whose resolver callback is _play_ready).
C7_FailureLeavesIdle ==
    (op.name = "play_ready" /\ op.flag /\ ~download_tracks) =>
       ~is_loading /\ ~is_playing(Cur)

\* C8: in every play-start the track-changed event of the track is fired
\* before the resolver of the track is invoked.
C8_TrackChangedBeforeResolver ==
    \A i \in 1..Len(trace) :
       trace[i].e = "get_url" =>
          \E j \in 1..(i - 1) : trace[j] = Ev("track_changed", trace[i].t)

PlayStarters == {"load_queue", "next", "media_end_reached"}

\* C9: load-and-play is called only by a resolver completion that carries a
\* URL and no error.
C9_PlayOnlyAfterResolution ==
    Played(trace) => (op.name = "play_ready" /\ ~op.flag)

\* C9, amended: load-and-play is called only by a resolver completion that
\* carries a URL and no error, with the URL of the track resolved, or by a
\* play-start of the mpv player for a current track whose file is cached.
C9_PlayAfterResolutionOrCached ==
    Played(trace) =>
       \/ /\ op.name = "play_ready" /\ ~op.flag
          /\ \A j \in 1..Len(trace) :
                trace[j].e = "load_and_play" => trace[j].t = UrlOf(op.track)
       \/ /\ engine = "mpv" /\ op.name \in PlayStarters /\ op.cached
          /\ \A j \in 1..Len(trace) :
                trace[j].e = "load_and_play" => trace[j].t = UrlOf(CurrentTrack(queue))

\* A resolution has just completed with a URL, and the URL was played.
C9_Witness ==
    /\ op.name = "play_ready" /\ ~op.flag
    /\ Fired(trace, Ev("load_and_play", UrlOf(op.track)))

\* What end-of-stream does but for the play-start of a repeated track:
\* nothing when mpv's idle-active is false, else Queue.next(False).
EndOfStreamStep(restart) ==
    (op'.name = "media_end_reached") =>
       IF engine = "mpv" /\ ~op'.flag
       THEN queue' = queue /\ trace' = <<>> /\ inflight' = inflight
       ELSE /\ \E rnd \in RandRange(queue, FALSE) :
                  /\ queue' = Queue_next(queue, FALSE, rnd).q
                  /\ op'.raised = Queue_next(queue, FALSE, rnd).raised
            /\ (queue.repeat_one /\ CursorInRange(queue)) =>
                  /\ queue'.current_track = queue.current_track
                  /\ Fired(trace', Ev("track_changed", CurrentTrack(queue)))
                  /\ restart

Holds(s, x) == \E j \in 1..Len(s) : s[j] = x

\* C11: Queue.load(tracks) with no index, in any queue state: for a
\* non-empty list the cursor becomes 0 and get_current_track() returns
\* tracks[0]; for an empty list the cursor becomes unset and
\* get_current_track() returns None.
C11_LoadWithoutIndex ==
    [][(op'.name = "Queue.load" /\ op'.flag) =>
         /\ queue'.tracks = op'.data
         /\ op'.raised = NoExc
         /\ Queue_get_current_track(queue').raised = NoExc
         /\ IF op'.data # <<>>
            THEN /\ queue'.current_track = IntCur(0)
                 /\ Queue_get_current_track(queue').ret = op'.data[1]
            ELSE /\ queue'.current_track = NoneCur
                 /\ Queue_get_current_track(queue').ret = None]_vars

\* A list of two tracks or more has just been loaded with no index.
C11_Witness ==
    /\ op.name = "Queue.load" /\ op.flag /\ Len(op.data) >= 2
    /\ op.data[1] # op.data[2]
    /\ queue.current_track = IntCur(0)

\* C12: Queue.remove(track) of a track that is not in the sequence leaves
\* the cursor, the sequence and both flags as they were and raises nothing,
\* in every queue state.
C12_RemoveAbsent ==
    [][(op'.name = "Queue.remove" /\ ~Holds(queue.tracks, op'.track)) =>
         queue' = queue /\ op'.raised = NoExc]_vars

\* A track that is not in a non-empty sequence has just been removed.
C12_Witness ==
    /\ op.name = "Queue.remove" /\ ~op.flag
    /\ queue.tracks # <<>> /\ op.pre = queue

\* C13: Queue.append(track) adds the track at the end and leaves the cursor
\* and the flags alone: with the cursor unset get_current_track() is still
\* None, with the cursor on a track the current track is the same.
C13_AppendKeepsCursor ==
    [][(op'.name = "Queue.append") =>
         /\ queue' = [queue EXCEPT !.tracks = Append(queue.tracks, op'.track)]
         /\ op'.raised = NoExc
         /\ queue.current_track = NoneCur =>
                Queue_get_current_track(queue') = QRes(queue', None, NoExc)
         /\ CursorInRange(queue) =>
                /\ Queue_get_current_track(queue').raised = NoExc
                /\ Queue_get_current_track(queue').ret =
                      Queue_get_current_track(queue).ret]_vars

\* A track has just been appended to a queue that has a current track.
C13_Witness ==
    /\ op.name = "Queue.append" /\ CursorInRange(queue)
    /\ queue.current_track.i < Len(queue.tracks) - 1
    /\ Queue_get_current_track(queue).ret # op.track

\* C14: with the cursor on a track, Queue.remove of a track whose first
\* occurrence is before the cursor moves the cursor back by one and
\* get_current_track() returns the same track as before; of a track whose
\* first occurrence is after the cursor, it leaves the cursor and the current
\* track as they were.
C14_RemoveKeepsCurrent ==
    [][(op'.name = "Queue.remove" /\ CursorInRange(queue)
          /\ Holds(queue.tracks, op'.track)
          /\ IndexOf(queue.tracks, op'.track) # queue.current_track.i) =>
         /\ op'.raised = NoExc
         /\ queue'.tracks = RemoveFirst(queue.tracks, op'.track)
         /\ queue'.current_track =
               IF IndexOf(queue.tracks, op'.track) < queue.current_track.i
               THEN IntCur(queue.current_track.i - 1) ELSE queue.current_track
         /\ Queue_get_current_track(queue') =
               QRes(queue', Queue_get_current_track(queue).ret, NoExc)]_vars

\* A track before the cursor has just been removed.
C14_Witness ==
    /\ op.name = "Queue.remove" /\ op.flag /\ CursorInRange(op.pre)
    /\ IndexOf(op.pre.tracks, op.track) < op.pre.current_track.i
    /\ queue.current_track = IntCur(op.pre.current_track.i - 1)

\* C15: load_queue(tracks) replaces the queue, fires queue-changed and only
\* then runs the play-start: queue-changed comes before track-changed and
\* before the resolver is invoked, and track-changed announces the current
\* track of the new queue (tracks[0] when no index is given).
C15_LoadQueueOrder ==
    [][(op'.name = "load_queue") =>
         /\ op'.raised = NoExc
         /\ queue'.tracks = op'.data
         /\ trace' # <<>> /\ trace'[1] = Ev("queue_changed", None)
         /\ \A j \in 1..Len(trace') :
               trace'[j].e \in {"track_changed", "get_url", "load_and_play"} =>
                  /\ \E i \in 1..(j - 1) : trace'[i].e = "queue_changed"
                  /\ trace'[j].t = CurrentTrack(queue')
         /\ (op'.data # <<>>) =>
               /\ Fired(trace', Ev("track_changed", CurrentTrack(queue')))
               /\ op'.flag => CurrentTrack(queue') = op'.data[1]]_vars

\* Two tracks have just been loaded with no index: the first was announced
\* and its resolver invoked.
C15_Witness ==
    /\ op.name = "load_queue" /\ op.flag /\ Len(op.data) = 2
    /\ Fired(trace, Ev("track_changed", op.data[1]))
    /\ Fired(trace, Ev("get_url", op.data[1]))

\* C16: append_to_queue(track) fires track-appended(track), and
\* remove_from_queue(track) fires queue-changed and then track-removed(track);
\* neither fires track-changed, invokes a resolver, changes is_loading or
\* calls the backend.
C16_NoImplicitPlayStart ==
    [][(op'.name \in {"append_to_queue", "remove_from_queue"}) =>
         /\ trace' = IF op'.name = "append_to_queue"
                     THEN <<Ev("track_appended", op'.track)>>
                     ELSE <<Ev("queue_changed", None), Ev("track_removed", op'.track)>>
         /\ is_loading' = is_loading
         /\ pause' = pause
         /\ inflight' = inflight]_vars

\* C17: play_pause() inverts the backend's pause flag and leaves the queue
\* and is_loading as they were; the second of two consecutive play_pause()
\* calls restores the pause flag the first one found.
C17_PlayPauseToggles ==
    [][(op'.name = "play_pause") =>
         /\ op'.raised = NoExc
         /\ pause' = ~pause
         /\ queue' = queue
         /\ is_loading' = is_loading
         /\ inflight' = inflight
         /\ trace' = <<>>
         /\ (op.name = "play_pause") => pause' = op.flag]_vars

\* An mpv player that is loading its current track has just been paused.
C17_Witness ==
    /\ op.name = "play_pause" /\ ~op.flag /\ pause
    /\ engine = "mpv" /\ is_loading /\ CurrentTrack(queue) \in Tracks

\* C18: get_play_progress() returns 0 and raises nothing when the backend's
\* duration is unknown, its elapsed position is unknown or the duration is
\* zero; otherwise it returns elapsed / duration (stated of MPVPlayer, which
\* computes the quotient itself).
C18_ProgressNeverRaises ==
    (op.name = "get_play_progress" /\ engine = "mpv") =>
       /\ op.raised = NoExc
       /\ op.val = IF playback_time = Unknown \/ duration = Unknown
                      \/ duration = Known(0)
                   THEN Known(0)
                   ELSE Frac(playback_time[1], duration[1])

BackendEvents == {"media_state_changed", "media_position_changed"}

\* C19: every media-state-changed and media-position-changed broadcast is
\* fired by the backend-event handler of its name, right after that handler
\* wrote the snapshot of the state at that moment: the "no track" record
\* when there is no current track, else playing = is_playing and the artist
\* and title of the queue's current track.
C19_SnapshotBeforeBroadcast ==
    /\ \A j \in 1..Len(trace) :
          trace[j].e \in BackendEvents =>
             /\ op.name = trace[j].e
             /\ j > 1
             /\ trace[j - 1].e = "snapshot_write"
             /\ IF CurrentTrack(queue) = None
                THEN trace[j - 1].data = NoData
                ELSE /\ trace[j - 1].data.playing = is_playing(Cur)
                     /\ trace[j - 1].data.artist = CurrentTrack(queue)
                     /\ trace[j - 1].data.title = CurrentTrack(queue)
    /\ (op.name \in BackendEvents /\ op.raised = NoExc) =>
          \E j \in 1..Len(trace) : trace[j].e = op.name

\* An mpv player playing a track has just broadcast a position.
C19_Witness ==
    /\ op.name = "media_position_changed" /\ engine = "mpv"
    /\ CurrentTrack(queue) \in Tracks /\ ~pause /\ ~is_loading
    /\ duration # Unknown
    /\ Len(trace) = 2 /\ trace[1].data.playing
    /\ trace[2].e = "media_position_changed"

\* A station completion that loads nothing: the queue, the backend and the
\* resolutions are as they were, and no event is fired.
StationFrame ==
    /\ queue' = queue
    /\ trace' = <<>>
    /\ inflight' = inflight
    /\ is_loading' = is_loading
    /\ pause' = pause

\* C20: a station completion with an error updates the notification with
\* the failure and neither mutates the queue nor starts playback; with no
\* error and no tracks it reports an empty station and does not mutate the
\* queue; with no error and tracks it calls load_queue with the tracks
\* (queue replaced, cursor 0, play-start for the first track).
C20_StationOutcomes ==
    [][(op'.name = "station_ready") =>
         /\ op'.raised = NoExc
         /\ station'.pending = station.pending - 1
         /\ IF op'.flag
            THEN station'.note = Failed /\ StationFrame
            ELSE IF op'.data = <<>>
                 THEN station'.note = EmptyStation /\ StationFrame
                 ELSE /\ station'.note = Ready
                      /\ queue' = [queue EXCEPT !.tracks = op'.data,
                                                !.current_track = IntCur(0)]
                      /\ trace'[1] = Ev("queue_changed", None)
                      /\ Fired(trace', Ev("track_changed", op'.data[1]))
                      /\ \/ Fired(trace', Ev("get_url", op'.data[1]))
                         \/ /\ engine = "mpv" /\ op'.cached
                            /\ Fired(trace', Ev("load_and_play", UrlOf(op'.data[1])))]_vars

\* A station of two tracks has just been loaded into a queue.
C20_Witness ==
    /\ op.name = "station_ready" /\ ~op.flag /\ Len(op.data) = 2
    /\ station.note = Ready /\ queue.tracks = op.data
    /\ Fired(trace, Ev("track_changed", op.data[1]))

\* C21: Queue.next(force) with the cursor unset returns None and leaves the
\* cursor unset when the sequence is empty; when it is not, it sets the
\* cursor to the index 0 and returns the first track, whatever force,
\* repeat_one and random are.  The cursor is never assigned a track object.
C21_NextFromUnset ==
    [][(op'.name = "Queue.next" /\ queue.current_track = NoneCur) =>
         /\ op'.raised = NoExc
         /\ queue'.current_track.k # "obj"
         /\ IF queue.tracks = <<>>
            THEN op'.ret = None /\ queue' = queue
            ELSE /\ op'.ret = queue.tracks[1]
                 /\ queue' = [queue EXCEPT !.current_track = IntCur(0)]]_vars

\* C25: Queue.remove of the track at the cursor leaves the cursor at the
\* same index, so the track that followed becomes current; when the removed
\* track was the last one, the cursor equals the new length and
\* get_current_track() returns None and does not raise.
C25_RemoveCurrent ==
    [][(op'.name = "Queue.remove" /\ CursorInRange(queue)
          /\ Holds(queue.tracks, op'.track)
          /\ IndexOf(queue.tracks, op'.track) = queue.current_track.i) =>
         /\ op'.raised = NoExc
         /\ queue' = [queue EXCEPT !.tracks = RemoveFirst(queue.tracks, op'.track)]
         /\ Queue_get_current_track(queue') =
               QRes(queue',
                    IF queue.current_track.i + 1 < Len(queue.tracks)
                    THEN queue.tracks[queue.current_track.i + 2] ELSE None,
                    NoExc)]_vars

\* C22: a play-start that finds no current track (load_queue of an empty
\* list, next or end-of-stream on an empty queue) does nothing: no
\* track-changed, no resolver invoked, is_loading not set, no call to the
\* backend, and no exception out of the player.
C22_NullPlayStartIsNoOp ==
    [][(\/ op'.name = "load_queue" /\ op'.data = <<>>
        \/ op'.name \in {"next", "media_end_reached"} /\ queue.tracks = <<>>) =>
         /\ op'.raised = NoExc
         /\ \A j \in 1..Len(trace') : trace'[j].e = "queue_changed"
         /\ is_loading' = is_loading
         /\ inflight' = inflight]_vars

\* C24: is_playing and is_loading are never both true: is_playing is true
\* exactly when the backend's pause flag is false and is_loading is false;
\* so are the two values every media-state-changed broadcast carries.
C24_NeverPlayingAndLoading ==
    /\ is_playing(Cur) = (~pause /\ ~is_loading)
    /\ ~(is_playing(Cur) /\ is_loading)
    /\ \A j \in 1..Len(trace) :
          trace[j].e = "media_state_changed" => ~(trace[j].l /\ trace[j].p)

\* An mpv player that is loading a track with the pause flag off has just
\* broadcast its state.
C24_Witness ==
    /\ engine = "mpv" /\ is_loading /\ ~pause
    /\ op.name = "media_state_changed"
    /\ Fired(trace, EvState(TRUE, FALSE))

\* C23: is_loading is true for as long as the resolution of the current
\* track is outstanding; when two play-starts overlap, the completion of the
\* earlier resolution does not clear is_loading while the resolution of the
\* current track is still in flight (stated of MPVPlayer with _play_ready as
\* the resolver's callback).
C23_LoadingUntilResolved ==
    [][(op'.name = "play_ready" /\ engine = "mpv" /\ ~download_tracks
          /\ is_loading
          /\ CurrentTrack(queue) \in Tracks
          /\ op'.track # CurrentTrack(queue)
          /\ inflight[CurrentTrack(queue)] > 0) => is_loading']_vars

====
